---- MODULE Spec2Model ----
(***************************************************************************)
(* Feed enrichment pipeline of rss_feed_app: the cascading content fetcher *)
(* (api/core/fetchers), the per-entry processor (api/core/processor.py),   *)
(* the extractors (api/core/extractors.py, api/core/utils.py) and the      *)
(* thread-pool pipeline of the /api/filter route (api/routes.py).          *)
(*                                                                         *)
(* Strings are sequences of one-character strings.  "^@" and "^A" stand    *)
(* for the control characters U+0000 and U+0001.                           *)
(***************************************************************************)
EXTENDS Integers, Sequences, FiniteSets, TLC

\* ------------------------------------------------------------------ bounds
\* Entries of the parsed feed handled by one request.
MaxEntries == 2
\* Largest value of the request's `workers` parameter explored.
MaxWorkers == 2
\* Publish dates are DATETIME_MIN .. MaxDate.
MaxDate == 2

\* ------------------------------------------------------------- characters
\* Python's None, and None where a string, a date or a record may stand.
None == "None"
NoStr == <<None>>
NoDate == <<>>
NoHtml == [page |-> None, via |-> None]
NoRecord == [method |-> None]

NUL == "^@"
SOH == "^A"

\* Characters removed by clean_html's [\x00-\x08\x0B\x0C\x0E-\x1F\x7F].
ControlChars == {NUL, SOH}
\* Characters str.strip() removes and \s matches.
SpaceChars == {" ", "\t", "\n"}
\* The alphabet in code point order; \w matches its letters.
Alphabet ==
    <<NUL, SOH, "\t", "\n", " ", "!", "\"", ",", "-", "/", ":", "<", "=", ">",
      "C", "a", "b", "c", "d", "e", "g", "h", "i", "k", "l", "m", "n", "o",
      "p", "r", "s", "t", "u", "v", "w", "y", "z">>
WordChars ==
    {"C", "a", "b", "c", "d", "e", "g", "h", "i", "k", "l", "m", "n", "o",
     "p", "r", "s", "t", "u", "v", "w", "y", "z"}
Ord(c) == CHOOSE k \in 1..Len(Alphabet) : Alphabet[k] = c

Rep(c, n) == [k \in 1..n |-> c]

RECURSIVE Concat(_)
Concat(ss) == IF ss = <<>> THEN <<>> ELSE Head(ss) \o Concat(Tail(ss))

Contains(s, c) == \E k \in 1..Len(s) : s[k] = c

\* str.strip(): from the first to the last character that is no space.
Strip(s) ==
    LET idx == {k \in DOMAIN s : s[k] \notin SpaceChars}
    IN IF idx = {} THEN <<>>
       ELSE SubSeq(s, CHOOSE k \in idx : \A j \in idx : k <= j,
                      CHOOSE k \in idx : \A j \in idx : k >= j)

\* Position k of s lies in a match of the pattern <[^>]+> as re.sub finds
\* them from left to right: with g the last ">" before k and lt the first
\* "<" after g, up to k, a match starts at lt and runs to the first ">" at
\* lt + 2 or later.
InTag(s, k) ==
    LET gts == {j \in 1..(k - 1) : s[j] = ">"}
        g == IF gts = {} THEN 0 ELSE CHOOSE j \in gts : \A x \in gts : x <= j
        lts == {j \in (g + 1)..k : s[j] = "<"}
    IN /\ lts # {}
       /\ LET lt == CHOOSE j \in lts : \A x \in lts : j <= x
          IN IF s[k] = ">" THEN k >= lt + 2
             ELSE /\ \E e \in (k + 1)..Len(s) : s[e] = ">"
                  /\ k = lt => s[lt + 1] # ">"

\* re.sub(r"<[^>]+>", "", s)
StripTags(s) ==
    LET Keep(k) == ~InTag(s, k)
        kept == SelectSeq([k \in 1..Len(s) |-> k], Keep)
    IN [j \in 1..Len(kept) |-> s[kept[j]]]

\* ------------------------------------------------------ api/core/utils.py
\* "<p>Contenu non disponible</p>"
PLACEHOLDER ==
    <<"<", "p", ">", "C", "o", "n", "t", "e", "n", "u", " ", "n", "o", "n", " ",
      "d", "i", "s", "p", "o", "n", "i", "b", "l", "e", "<", "/", "p", ">">>

IsNotControl(c) == c \notin ControlChars

\* clean_html: the placeholder for an empty input, else the input without
\* its control characters.
clean_html(html) ==
    IF html = <<>> THEN PLACEHOLDER ELSE SelectSeq(html, IsNotControl)

is_content_complete(content, min_length) ==
    IF content = <<>> THEN FALSE
    ELSE Len(Strip(StripTags(content))) >= min_length

\* ------------------------------------------------------------- src/config.py
MIN_CONTENT_LENGTH == 50
MAX_TAGS_PER_ARTICLE == 10
\* Hard-coded thresholds of the fetchers.
JINA_MIN_MARKDOWN == 100
CLOUDSCRAPER_MIN_LENGTH == 200
PLAYWRIGHT_MIN_LENGTH == 200

\* ------------------------------------------------------------------- pages
\* A page is the text a server answers with together with what BeautifulSoup
\* finds in it: str() of the first <article>, of the first <div> with a
\* content class, of the first <main> and of <body> (NoStr when absent), the markup before
\* <body>, the
\* keywords meta content, the article:tag meta contents and the texts of the
\* tag links.
T_p == <<"<", "p", ">">>
T_p_end == <<"<", "/", "p", ">">>
T_article == <<"<", "a", "r", "t", "i", "c", "l", "e", ">">>
T_article_end == <<"<", "/", "a", "r", "t", "i", "c", "l", "e", ">">>
T_body == <<"<", "b", "o", "d", "y", ">">>
T_body_end == <<"<", "/", "b", "o", "d", "y", ">">>
T_html_head ==
    <<"<", "h", "t", "m", "l", ">", "<", "h", "e", "a", "d", ">",
      "<", "/", "h", "e", "a", "d", ">">>
T_html_end == <<"<", "/", "h", "t", "m", "l", ">">>
T_meta_keywords ==
    <<"<", "m", "e", "t", "a", " ", "n", "a", "m", "e", "=", "\"", "k", "e",
      "y", "w", "o", "r", "d", "s", "\"", " ", "c", "o", "n", "t", "e", "n",
      "t", "=", "\"">>
T_attr_end == <<"\"", ">">>

NoElements ==
    [head |-> <<>>, article |-> NoStr, div |-> NoStr, main |-> NoStr,
     body |-> NoStr, keywords |-> NoStr, article_tags |-> <<>>,
     tag_links |-> <<>>]

WithRaw(raw, dom) ==
    [raw |-> raw, head |-> dom.head, article |-> dom.article, div |-> dom.div,
     main |-> dom.main, body |-> dom.body, keywords |-> dom.keywords,
     article_tags |-> dom.article_tags, tag_links |-> dom.tag_links]

\* <body><article>a x 200</article></body>
ArticleElement == Concat(<<T_article, Rep("a", 200), T_article_end>>)
PageArticle ==
    LET body == Concat(<<T_body, ArticleElement, T_body_end>>)
    IN WithRaw(body, [NoElements EXCEPT !.article = ArticleElement,
                                        !.body = body])

\* <body>a x 199, U+0001</body>: no semantic container, a control character.
PageBody ==
    LET body == Concat(<<T_body, Rep("a", 199), <<SOH>>, T_body_end>>)
    IN WithRaw(body, [NoElements EXCEPT !.body = body])

\* 200 control characters and no markup at all.
PageControl == WithRaw(Rep(SOH, 200), NoElements)

\* <p>aaa</p>: under every minimum length.
PageShort == WithRaw(Concat(<<T_p, Rep("a", 3), T_p_end>>), NoElements)

\* <meta name="keywords" content="ab!,abc,abc"><body>a x 200</body>
PageKeywords ==
    LET kw == <<"a", "b", "!", ",", "a", "b", "c", ",", "a", "b", "c">>
        body == Concat(<<T_body, Rep("a", 200), T_body_end>>)
        head == Concat(<<T_meta_keywords, kw, T_attr_end>>)
    IN WithRaw(head \o body,
               [NoElements EXCEPT !.head = head, !.body = body,
                                  !.keywords = kw])

Pages ==
    [article |-> PageArticle, body |-> PageBody, control |-> PageControl,
     short |-> PageShort, keywords |-> PageKeywords]
PageIds == DOMAIN Pages
PageOf(id) == Pages[id]

\* ------------------------------------------------- api/core/extractors.py
\* The first candidate (article, content div, main) whose visible text
\* reaches MIN_CONTENT_LENGTH, else <body>, else the input unchanged.
extract_article_content(page) ==
    IF page.raw = <<>> THEN PLACEHOLDER
    ELSE LET ok(e) == e # NoStr /\ is_content_complete(e, MIN_CONTENT_LENGTH)
         IN CASE ok(page.article) -> page.article
              [] ~ok(page.article) /\ ok(page.div) -> page.div
              [] ~ok(page.article) /\ ~ok(page.div) /\ ok(page.main) -> page.main
              [] OTHER -> IF page.body # NoStr THEN page.body ELSE page.raw

\* str.split(",")
RECURSIVE SplitFrom(_, _, _)
SplitFrom(s, k, cur) ==
    IF k > Len(s) THEN <<cur>>
    ELSE IF s[k] = "," THEN <<cur>> \o SplitFrom(s, k + 1, <<>>)
         ELSE SplitFrom(s, k + 1, Append(cur, s[k]))
Split(s) == SplitFrom(s, 1, <<>>)

Range(f) == {f[k] : k \in DOMAIN f}

IsTagChar(c) == c \in WordChars \cup SpaceChars \cup {"-"}

\* clean_tag: NoStr for a tag to discard.  The length test is made on the
\* stripped tag, before the special characters are removed.
clean_tag(tag) ==
    IF tag = <<>> THEN NoStr
    ELSE LET t == Strip(tag)
         IN IF Len(t) < 3 \/ Len(t) > 50 THEN NoStr
            ELSE LET u == Strip(SelectSeq(t, IsTagChar))
                 IN IF u # <<>> THEN u ELSE NoStr

\* Lexicographic order of strings by code point, as sorted() compares them.
RECURSIVE StrLess(_, _)
StrLess(a, b) ==
    IF a = <<>> THEN b # <<>>
    ELSE IF b = <<>> THEN FALSE
    ELSE IF Head(a) = Head(b) THEN StrLess(Tail(a), Tail(b))
    ELSE Ord(Head(a)) < Ord(Head(b))

\* sorted(S) of a set of strings.
RECURSIVE SortedStrings(_)
SortedStrings(S) ==
    IF S = {} THEN <<>>
    ELSE LET m == CHOOSE x \in S : \A y \in S \ {x} : StrLess(x, y)
         IN <<m>> \o SortedStrings(S \ {m})

Truncate(s, n) == SubSeq(s, 1, IF Len(s) < n THEN Len(s) ELSE n)

\* list(S): the elements of a set in an order the runtime chooses.
ListsOf(S) ==
    {l \in [1..Cardinality(S) -> S] : \A x \in S : \E k \in DOMAIN l : l[k] = x}

\* The tags gathered before cleaning: the feed's categories, the keywords
\* (comma-split, stripped), the article:tag contents and the texts of the
\* first ten tag links shorter than 30 characters.
RawTags(page, rss_categories) ==
    Range(rss_categories)
    \cup (IF page.keywords # NoStr /\ page.keywords # <<>>
          THEN {Strip(k) : k \in Range(Split(page.keywords))} ELSE {})
    \cup {Strip(t) : t \in {x \in Range(page.article_tags) : x # <<>>}}
    \cup {Strip(t) : t \in {x \in Range(Truncate(page.tag_links, 10)) :
                              Strip(x) # <<>> /\ Len(Strip(x)) < 30}}

\* extract_tags: the set of lists it may return.
extract_tags(page, rss_categories) ==
    IF page.raw = <<>> THEN ListsOf(Range(rss_categories))
    ELSE LET cleaned == {clean_tag(t) : t \in RawTags(page, rss_categories)}
                            \ {NoStr}
         IN {Truncate(SortedStrings(cleaned), MAX_TAGS_PER_ARTICLE)}

\* ---------------------------------------- extract_images, utils.urljoin
\* A URL is a host (with its scheme, empty for a relative URL) and a path.
\* NoUrl is None, EmptyUrl the empty string; both are false in a test.
NoUrl == [host |-> None, path |-> None]
EmptyUrl == [host |-> "", path |-> ""]
Truthy(u) == u # NoUrl /\ u # EmptyUrl

\* urljoin(base_url, url) for an absolute URL and for a rooted path.
urljoin(base_url, u) ==
    IF u.host # "" THEN u ELSE [host |-> base_url.host, path |-> u.path]

\* make_absolute_url: the empty string for an empty URL.
make_absolute_url(u, base_url) ==
    IF ~Truthy(u) THEN EmptyUrl ELSE urljoin(base_url, u)

\* What BeautifulSoup finds in a document, for the three roles:
\*   og_image, twitter_image, og_logo: the content of the first such meta
\*     (NoUrl without the meta or without the attribute);
\*   article_img: the src of the first <img src> of <article> or <main>;
\*   header_logo: the src of the first <img src alt~logo> of the first
\*     <header>, EmptyUrl for src="", NoUrl without such an image;
\*   links: rel and href of the <link> elements, in document order.
IconRels == {"apple-touch-icon", "icon", "stylesheet"}
MatchesApple(link) == link.rel = "apple-touch-icon"
MatchesIcon(link) == link.rel \in {"apple-touch-icon", "icon"}

\* soup.find("link", rel=...): the first link that matches, NoLinkTag when
\* none does.
NoLinkTag == [rel |-> None, href |-> NoUrl]
FirstLink(found) == IF found = <<>> THEN NoLinkTag ELSE Head(found)

\* The src holds one of "icon", "logo", "avatar", "emoji".
DecorativePaths == {"/logo.png", "/favicon.ico", "/apple-icon.png"}

\* The article image: og:image, else twitter:image, else the first image
\* of the article that is no icon, logo, avatar or emoji.
ArticleImage(doc, base_url) ==
    IF Truthy(doc.og_image) THEN make_absolute_url(doc.og_image, base_url)
    ELSE IF Truthy(doc.twitter_image)
    THEN make_absolute_url(doc.twitter_image, base_url)
    ELSE IF Truthy(doc.article_img) /\ doc.article_img.path \notin DecorativePaths
    THEN make_absolute_url(doc.article_img, base_url)
    ELSE NoUrl

\* The site's logo before the fallback: og:logo, else the header's logo
\* image, whose src may be empty.
SiteLogo(doc, base_url) ==
    IF Truthy(doc.og_logo) THEN make_absolute_url(doc.og_logo, base_url)
    ELSE IF doc.header_logo # NoUrl
    THEN make_absolute_url(doc.header_logo, base_url)
    ELSE NoUrl

\* The favicon: the href of the first apple-touch-icon link, else the href
\* of the first link whose rel holds "icon", else /favicon.ico of the host.
Favicon(doc, base_url) ==
    LET apple_icon == FirstLink(SelectSeq(doc.links, MatchesApple))
        icon == FirstLink(SelectSeq(doc.links, MatchesIcon))
    IN IF Truthy(apple_icon.href)
       THEN make_absolute_url(apple_icon.href, base_url)
       ELSE IF Truthy(icon.href) THEN make_absolute_url(icon.href, base_url)
       ELSE [host |-> base_url.host, path |-> "/favicon.ico"]

\* `if not result["site_logo"] and result["favicon"]`
LogoFallback(site_logo, favicon) ==
    IF ~Truthy(site_logo) /\ Truthy(favicon) THEN favicon ELSE site_logo

NoImages == [article_image |-> NoUrl, site_logo |-> NoUrl, favicon |-> NoUrl]

\* Faulty variant: the fallback of the logo is made before the favicon is
\* resolved.
extract_images_FallbackFirst(doc, base_url) ==
    IF doc.empty THEN NoImages
    ELSE [article_image |-> ArticleImage(doc, base_url),
          site_logo |-> LogoFallback(SiteLogo(doc, base_url), NoUrl),
          favicon |-> Favicon(doc, base_url)]

extract_images(doc, base_url) ==
    IF doc.empty THEN NoImages
    ELSE LET favicon == Favicon(doc, base_url)
         IN [article_image |-> ArticleImage(doc, base_url),
             site_logo |-> LogoFallback(SiteLogo(doc, base_url), favicon),
             favicon |-> favicon]

\* ------------------------------------------------------------------- state
VARIABLES
    Config,            \* USE_JINA, USE_CLOUDSCRAPER, USE_PLAYWRIGHT
    method_extraction, \* the request's preferred method, None when absent
    workers,           \* the request's worker count
    entries,           \* feed.entries[:max_entries]
    web,               \* ids of the pages the network may answer with
    pc,                \* per entry: where its process_entry call stands
    methods,           \* per entry: the cascade's methods not yet attempted
    tried,             \* per entry: the fetch functions invoked, in order
    raw_html,          \* per entry: what fetch_content_cascade returned
    result,            \* per entry: what process_entry returned
    playwright_lock,   \* _playwright_lock is held
    processed, failed, stats,
    collected,         \* futures as_completed has yielded
    order,             \* history: the entries in the order they were yielded
    main,              \* the request thread: "start", "parse", "collect",
                       \* "sorted", then "responded"
    url,               \* the request's source URL
    upstream,          \* what the source feed answers to requests.get
    now,               \* the clock, in hours
    cache,             \* per URL: the cache file (content, mtime), if any
    cached,            \* what the last call of get_cached_feed returned
    response,          \* what the request returned to its caller
    last_write,        \* history: per URL, the last save_cached_feed
    looked_at,         \* history: the time of the last get_cached_feed
    max_entries,       \* the request's max_entries, <<>> when absent
    steps,             \* history: the steps the request went through
    waiting,           \* history: the threads blocked on the lock, in the
                       \* order in which they began to wait
    writers,           \* per thread inside write_bytes: where it stands
    document,          \* the arguments of a call of extract_images
    images             \* what that call returned

vars ==
    <<Config, method_extraction, workers, entries, web, pc, methods, tried,
      raw_html, result, playwright_lock, processed, failed, stats, collected,
      order, main, url, upstream, now, cache, cached, response, last_write,
      looked_at, max_entries, steps, waiting, writers, document, images>>

\* What process_entry and the collection loop leave alone.
request ==
    <<url, upstream, now, cache, cached, response, last_write, looked_at,
      max_entries, steps, writers, document, images>>

\* ------------------------------------------- api/core/fetchers/fetchers.py
\* Both imports succeed in every process that serves a request: the
\* fetchers package imports playwright and cloudscraper unconditionally.
PLAYWRIGHT_AVAILABLE == TRUE
CLOUDSCRAPER_AVAILABLE == TRUE

\* The keys of FETCH_METHODS in the dict's insertion order.
FETCH_METHODS == <<"playwright", "jina", "cloudscraper">>

\* Mutant: the enable flags are not consulted.
Enabled_IgnoringFlags(m) == m \in Range(FETCH_METHODS)

Enabled(m) ==
    CASE m = "playwright" -> Config.USE_PLAYWRIGHT /\ PLAYWRIGHT_AVAILABLE
      [] m = "jina" -> Config.USE_JINA
      [] m = "cloudscraper" -> Config.USE_CLOUDSCRAPER /\ CLOUDSCRAPER_AVAILABLE

\* str.lower() on the method names a request may carry.
Lower(name) == IF name = "Jina" THEN "jina" ELSE name

\* The list fetch_content_cascade builds without a preferred method.
EnabledMethods == SelectSeq(FETCH_METHODS, Enabled)

\* Mutant: the preferred method first, then every other enabled method.
PreferredMethods_ThenOthers(preferred_method) ==
    LET key == Lower(preferred_method)
        Other(m) == m # key
    IN IF key \in Range(FETCH_METHODS)
       THEN <<key>> \o SelectSeq(EnabledMethods, Other) ELSE <<>>

\* The list fetch_content_cascade builds for a preferred method.
PreferredMethods(preferred_method) ==
    LET key == Lower(preferred_method)
    IN IF key \in Range(FETCH_METHODS) THEN <<key>> ELSE <<>>

CascadeMethods(preferred_method) ==
    IF preferred_method # None THEN PreferredMethods(preferred_method)
    ELSE EnabledMethods

\* Mutant: the first failure ends the cascade.
AfterFailure_GiveUp(ms) == <<>>

\* What is left to try once the method at the head of `ms` has raised.
AfterFailure(ms) == Tail(ms)

\* --------------------------------------------------------------- fetchers
Failure == "Failure"

\* What the network does to one request of a fetcher.
Responses ==
    {[kind |-> k, page |-> None] :
        k \in {"timeout", "transport_error", "http_error"}}
    \cup {[kind |-> "ok", page |-> id] : id \in web}

\* markdown_to_html: a paragraph around plain text, markup passed through.
markdown_to_html(markdown_text) ==
    IF markdown_text = <<>>
    THEN <<"<", "p", ">", "C", "o", "n", "t", "e", "n", "u", " ", "v", "i",
           "d", "e", "<", "/", "p", ">">>
    ELSE IF Head(markdown_text) = "<" THEN markdown_text
    ELSE Concat(<<T_p, markdown_text, T_p_end>>)

\* page.content(): the browser's serialisation of the document it built.
BrowserContent(page) ==
    LET body == IF page.body # NoStr THEN page.body
                ELSE Concat(<<T_body, page.raw, T_body_end>>)
    IN WithRaw(Concat(<<T_html_head, page.head, body, T_html_end>>),
               [page EXCEPT !.body = body])

\* The document a fetcher hands back for a 2xx answer, before validation.
Fetched(m, page) ==
    CASE m = "jina" -> WithRaw(markdown_to_html(page.raw), page)
      [] m = "cloudscraper" -> page
      [] m = "playwright" -> BrowserContent(page)

\* The length checks fetch_with_jina, fetch_with_cloudscraper and
\* fetch_with_playwright make on a 2xx answer: FALSE when they raise.
Validates(m, page) ==
    CASE m = "jina" ->
           /\ Len(page.raw) >= JINA_MIN_MARKDOWN
           /\ is_content_complete(Fetched(m, page).raw, MIN_CONTENT_LENGTH)
      [] m = "cloudscraper" ->
           is_content_complete(page.raw, CLOUDSCRAPER_MIN_LENGTH)
      [] m = "playwright" ->
           is_content_complete(Fetched(m, page).raw, PLAYWRIGHT_MIN_LENGTH)

\* Validates, Fetched and extract_article_content of every method and page,
\* evaluated once.
ValidatesTable ==
    [m \in Range(FETCH_METHODS) |-> [id \in PageIds |-> Validates(m, Pages[id])]]
FetchedTable ==
    [m \in Range(FETCH_METHODS) |-> [id \in PageIds |-> Fetched(m, Pages[id])]]
ContentTable ==
    [m \in Range(FETCH_METHODS) |->
        [id \in PageIds |-> extract_article_content(FetchedTable[m][id])]]

\* A fetcher returns HTML (TRUE) or raises (FALSE): a timeout, a transport
\* error, a non-2xx status or a failed length check.
FetchSucceeds(m, resp) == resp.kind = "ok" /\ ValidatesTable[m][resp.page]

\* The document behind a value of raw_html.
HtmlOf(h) == FetchedTable[h.via][h.page]

\* ------------------------------------------------ api/core/processor.py
\* datetime.min, the sort key of an entry without a date.
DATETIME_MIN == 0
Dates == {<<d>> : d \in DATETIME_MIN..MaxDate}

\* hashlib.sha256(link).hexdigest(), taken as collision-free.
EntryId(link) == <<"sha256", link>>

\* datetime(*entry.published_parsed[:6]): NoDate when the entry has no
\* date or the constructor raises on it.
PubDate(entry) ==
    IF entry.published_parsed \in Dates THEN entry.published_parsed
    ELSE NoDate

Record(entry, content, tags, method_used) ==
    [id |-> EntryId(entry.link), link |-> entry.link,
     content |-> clean_html(content), pub_date |-> PubDate(entry),
     tags |-> tags, method |-> method_used]

\* A link holding a lone surrogate (from a character reference such as
\* &#xD800; of a malformed feed): link.encode() raises UnicodeEncodeError.
LINK_SURROGATE == "u_ud800"
Encodable(link) == link # LINK_SURROGATE

\* What process_entry returns at its end: the record, or None from the
\* outer except branch when the id cannot be computed.  The fetchers are
\* not taken to fail on such a link.
Returned(entry, record) ==
    IF Encodable(entry.link) THEN record ELSE NoRecord

\* Faulty variant: any summary is used.
SummaryUsable_Always(raw_summary) == TRUE

\* `raw_summary and len(raw_summary) > 50`.
SummaryUsable(raw_summary) == raw_summary # <<>> /\ Len(raw_summary) > 50

\* The except branch of process_entry: the feed's summary or the placeholder.
FallbackRecord(entry) ==
    LET raw_summary == entry.summary
    IN IF SummaryUsable(raw_summary)
       THEN Record(entry,
                   IF Contains(raw_summary, "<") THEN raw_summary
                   ELSE Concat(<<T_p, raw_summary, T_p_end>>),
                   entry.tags, "rss_summary")
       ELSE Record(entry, PLACEHOLDER, entry.tags, "unavailable")

\* Faulty variant: no entry is rejected for its link.
NoLink_Never(entry) == FALSE

\* `if not link`: the entry has no link, or an empty one.
NoLink(entry) == entry.link = ""

N == Len(entries)
Tasks == 1..N
Running == {i \in Tasks : pc[i] \notin {"queued", "done"}}

\* A worker thread takes the next queued call of process_entry: the entry
\* without a link is rejected, else fetch_content_cascade builds its list of
\* methods and raises when the list is empty.
StartEntry(i) ==
    /\ main = "collect"
    /\ pc[i] = "queued"
    /\ \A j \in Tasks : j < i => pc[j] # "queued"
    /\ Cardinality(Running) < workers
    /\ IF NoLink(entries[i])
       THEN /\ pc' = [pc EXCEPT ![i] = "done"]
            /\ UNCHANGED methods
       ELSE LET ms == CascadeMethods(method_extraction)
            IN /\ methods' = [methods EXCEPT ![i] = ms]
               /\ pc' = [pc EXCEPT ![i] = IF ms = <<>> THEN "fallback"
                                          ELSE "fetch"]
    /\ UNCHANGED <<Config, method_extraction, workers, entries, web, tried,
                   raw_html, result, playwright_lock, processed, failed,
                   stats, collected, order, main, waiting>>

\* The loop of fetch_content_cascade once the call of method m, the last
\* of `log`, has ended: return its HTML, or go on with the next method and
\* return None after the last one.
AfterCall(i, log, m, resp) ==
    IF FetchSucceeds(m, resp)
    THEN /\ raw_html' = [raw_html EXCEPT ![i] = [page |-> resp.page, via |-> m]]
         /\ tried' = [log EXCEPT ![i][Len(log[i])].result = "ok"]
         /\ pc' = [pc EXCEPT ![i] = "extract"]
         /\ UNCHANGED methods
    ELSE /\ tried' = [log EXCEPT ![i][Len(log[i])].result = "failed"]
         /\ methods' = [methods EXCEPT ![i] = AfterFailure(methods[i])]
         /\ pc' = [pc EXCEPT ![i] = IF AfterFailure(methods[i]) = <<>>
                                    THEN "fallback" ELSE "fetch"]
         /\ UNCHANGED raw_html

\* fetch_with_jina or fetch_with_cloudscraper, called and returned.
CallFetcher(i) ==
    /\ pc[i] = "fetch"
    /\ Head(methods[i]) # "playwright"
    /\ \E resp \in Responses :
          LET m == Head(methods[i])
              log == [tried EXCEPT ![i] = Append(@, [method |-> m,
                                                     result |-> "pending"])]
          IN AfterCall(i, log, m, resp)
    /\ UNCHANGED <<Config, method_extraction, workers, entries, web, result,
                   playwright_lock, processed, failed, stats, collected, order, main, waiting>>

\* fetch_with_playwright is called and reaches `with _playwright_lock`; it
\* begins to wait when another thread holds the lock.
PlaywrightCall(i) ==
    /\ pc[i] = "fetch"
    /\ Head(methods[i]) = "playwright"
    /\ tried' = [tried EXCEPT ![i] = Append(@, [method |-> "playwright",
                                                result |-> "pending"])]
    /\ pc' = [pc EXCEPT ![i] = "lockwait"]
    /\ waiting' = IF playwright_lock THEN Append(waiting, i) ELSE waiting
    /\ UNCHANGED <<Config, method_extraction, workers, entries, web, methods,
                   raw_html, result, playwright_lock, processed, failed,
                   stats, collected, order, main>>

\* Mutant: the lock is not taken into account.
CanAcquire_Unlocked == TRUE

\* Lock.acquire() returns only when no thread holds the lock.
CanAcquire == ~playwright_lock

\* The list without the element x.
Without(l, x) == LET Other(y) == y # x IN SelectSeq(l, Other)

\* A thread at `with _playwright_lock` takes the lock.  threading.Lock
\* does not say which of the waiting threads proceeds.
PlaywrightAcquire(i) ==
    /\ pc[i] = "lockwait"
    /\ CanAcquire
    /\ playwright_lock' = TRUE
    /\ pc' = [pc EXCEPT ![i] = "render"]
    /\ waiting' = Without(waiting, i)
    /\ UNCHANGED <<Config, method_extraction, workers, entries, web, methods,
                   tried, raw_html, result, processed, failed, stats,
                   collected, order, main>>

\* Faulty variant: the lock is released only when the render returned.
LockAfterRender_KeptOnError(resp) == ~FetchSucceeds("playwright", resp)

\* Leaving the `with` block releases the lock, after a return and after an
\* exception alike.
LockAfterRender(resp) == FALSE

\* The browser session ends, by a return or by an exception; leaving the
\* with block releases the lock.
PlaywrightRender(i) ==
    /\ pc[i] = "render"
    /\ \E resp \in Responses :
          /\ AfterCall(i, tried, "playwright", resp)
          /\ playwright_lock' = LockAfterRender(resp)
    /\ UNCHANGED <<Config, method_extraction, workers, entries, web, result,
                   processed, failed, stats, collected, order, main, waiting>>

\* The try branch of process_entry after a fetch that returned HTML.
Extract(i) ==
    /\ pc[i] = "extract"
    /\ LET html == HtmlOf(raw_html[i])
       IN \E article_tags \in extract_tags(html, entries[i].tags) :
             result' = [result EXCEPT
                          ![i] = Returned(entries[i],
                                     Record(entries[i],
                                            ContentTable[raw_html[i].via]
                                                        [raw_html[i].page],
                                            article_tags, "cascade"))]
    /\ pc' = [pc EXCEPT ![i] = "done"]
    /\ UNCHANGED <<Config, method_extraction, workers, entries, web, methods,
                   tried, raw_html, playwright_lock, processed, failed, stats,
                   collected, order, main, waiting>>

\* The except branch: RuntimeError (no method) or ValueError (no HTML).
Fallback(i) ==
    /\ pc[i] = "fallback"
    /\ result' = [result EXCEPT ![i] = Returned(entries[i],
                                                FallbackRecord(entries[i]))]
    /\ pc' = [pc EXCEPT ![i] = "done"]
    /\ UNCHANGED <<Config, method_extraction, workers, entries, web, methods,
                   tried, raw_html, playwright_lock, processed, failed, stats,
                   collected, order, main, waiting>>

\* ------------------------------------------------------- api/routes.py
\* as_completed yields a finished future; its result is appended and
\* counted, or counted as failed.
\* Faulty variant: an entry without a record is not counted.
CountFailed_Not(n) == n

\* failed += 1
CountFailed(n) == n + 1

Collect(i) ==
    /\ main = "collect"
    /\ pc[i] = "done"
    /\ i \notin collected
    /\ collected' = collected \cup {i}
    /\ order' = Append(order, i)
    /\ IF result[i] # NoRecord
       THEN /\ processed' = Append(processed, result[i])
            /\ stats' = [stats EXCEPT ![result[i].method] = @ + 1]
            /\ UNCHANGED failed
       ELSE /\ failed' = CountFailed(failed)
            /\ UNCHANGED <<processed, stats>>
    /\ UNCHANGED <<Config, method_extraction, workers, entries, web, pc,
                   methods, tried, raw_html, result, playwright_lock, main, waiting>>

SortKey(x) == IF x.pub_date # NoDate THEN x.pub_date[1] ELSE DATETIME_MIN

\* list.sort(key=..., reverse=True): descending and stable.
RECURSIVE InsertDesc(_, _)
InsertDesc(sorted, x) ==
    IF sorted = <<>> THEN <<x>>
    ELSE IF SortKey(Head(sorted)) >= SortKey(x)
         THEN <<Head(sorted)>> \o InsertDesc(Tail(sorted), x)
         ELSE <<x>> \o sorted
RECURSIVE SortDesc(_)
SortDesc(l) ==
    IF l = <<>> THEN <<>>
    ELSE InsertDesc(SortDesc(SubSeq(l, 1, Len(l) - 1)), l[Len(l)])

\* Faulty variant: the first entry without a record ends the loop.
AllCollected_OrFailed == collected = Tasks \/ failed > 0

\* The loop over as_completed(futures) ends once every future was yielded.
AllCollected == collected = Tasks

SortProcessed ==
    /\ main = "collect"
    /\ AllCollected
    /\ processed' = SortDesc(processed)
    /\ main' = "sorted"
    /\ steps' = Append(steps, "pipeline")
    /\ UNCHANGED <<url, upstream, now, cache, cached, response, last_write,
                   looked_at, max_entries, writers, document, images>>
    /\ UNCHANGED <<Config, method_extraction, workers, entries, web, pc,
                   methods, tried, raw_html, result, playwright_lock, failed,
                   stats, collected, order, waiting>>

\* ------------------------------------------------------ api/core/cache.py
\* CACHE_TTL = timedelta(hours=2); the clock counts hours.
CACHE_TTL == 2
\* The last hour of the clock.
MaxClock == 4

Urls == {"f1", "f2"}
\* None in place of bytes.
NoDoc == <<>>
NoFile == [exists |-> FALSE, content |-> NoDoc, mtime |-> 0]
NoFiles == [u \in Urls |-> NoFile]

\* Faulty variant: a cache file never expires.
Expired_Never(age) == FALSE

\* datetime.now() - mtime > CACHE_TTL
Expired(age) == age > CACHE_TTL

get_cached_feed(files, u, t) ==
    IF ~files[u].exists THEN NoDoc
    ELSE IF Expired(t - files[u].mtime) THEN NoDoc
    ELSE files[u].content

\* Faulty variant: nothing is written.
save_cached_feed_Skipped(files, u, content, t) == files

\* write_bytes: the file holds the content, its mtime is the time of the
\* write.
save_cached_feed(files, u, content, t) ==
    [files EXCEPT ![u] = [exists |-> TRUE, content |-> content, mtime |-> t]]

\* Faulty variant: a read renews the file's mtime.
AfterRead_Touched(files, u, t) ==
    IF get_cached_feed(files, u, t) # NoDoc
    THEN [files EXCEPT ![u].mtime = t] ELSE files

\* exists(), stat() and read_bytes() leave the file as it is.
AfterRead(files, u, t) == files

\* Hits counted per saved document, up to MaxHits.
MaxHits == 2

\* History of a save: its time, its content, the parameters of the request
\* that made it and the hits served from it since.
NoWrite ==
    [written |-> FALSE, at |-> 0, content |-> NoDoc, hits |-> 0,
     method |-> None, max_entries |-> <<>>]
WriteOf(t, content, method, max) ==
    [written |-> TRUE, at |-> t, content |-> content, hits |-> 0,
     method |-> method, max_entries |-> max]
\* The history after a call of get_cached_feed that returned `doc`.
Looked(w, doc) ==
    IF doc = NoDoc THEN w
    ELSE [w EXCEPT !.hits = IF @ < MaxHits THEN @ + 1 ELSE @]

\* The threads that may be inside write_bytes, none of them at first.
Writers == {"t1", "t2"}
Idle == [w \in Writers |-> [at |-> "idle", content |-> NoDoc]]

\* ------------------------------------------- api/routes.py, the request
pipeline ==
    <<Config, method_extraction, workers, entries, web, pc, methods, tried,
      raw_html, result, playwright_lock, processed, failed, stats, collected,
      order, waiting>>

NoResponse == [status |-> 0, body |-> NoDoc]
\* Response(content=..., media_type="application/rss+xml")
Response(content) == [status |-> 200, body |-> content]
HTTPException(status_code) == [status |-> status_code, body |-> NoDoc]

\* What requests.get(url) and feedparser.parse meet: no answer, an answer
\* that is not 2xx, or a document, well-formed or not (bozo), whose entries
\* are `entries`.
Upstreams ==
    {[kind |-> "unreachable", status |-> 0, bozo |-> FALSE]}
    \cup {[kind |-> "http_error", status |-> c, bozo |-> FALSE] :
            c \in {404, 503}}
    \cup {[kind |-> "ok", status |-> 200, bozo |-> b] : b \in BOOLEAN}
OkUpstream == [kind |-> "ok", status |-> 200, bozo |-> FALSE]

\* fg.rss_str(): the document of the sorted records.
Doc(records) == <<records>>

\* lxml refuses a text that holds a control character, and rss_str raises.
XmlCompatible(text) == \A k \in DOMAIN text : text[k] \notin ControlChars
Serializable(records) ==
    \A k \in DOMAIN records :
        /\ XmlCompatible(records[k].content)
        /\ \A t \in DOMAIN records[k].tags :
              XmlCompatible(records[k].tags[t])

\* The cache is looked up first; a hit is the response.
CacheCheck ==
    /\ main = "start"
    /\ cached' = get_cached_feed(cache, url, now)
    /\ cache' = AfterRead(cache, url, now)
    /\ last_write' = [last_write EXCEPT ![url] = Looked(@, cached')]
    /\ looked_at' = now
    /\ IF cached' # NoDoc
       THEN /\ response' = Response(cached')
            /\ main' = "responded"
            /\ steps' = steps \o <<"cache", "return">>
       ELSE /\ main' = "parse"
            /\ steps' = Append(steps, "cache")
            /\ UNCHANGED response
    /\ UNCHANGED <<pipeline, url, upstream, now, max_entries, writers, document, images>>

\* requests.get, raise_for_status, feedparser.parse and the test of
\* feed.entries; a malformed document is only logged.
FetchFeed ==
    /\ main = "parse"
    /\ IF upstream.kind = "unreachable"
       THEN /\ response' = HTTPException(400)
            /\ main' = "responded"
       ELSE IF upstream.kind = "http_error"
       THEN /\ response' = HTTPException(upstream.status)
            /\ main' = "responded"
       ELSE IF entries = <<>>
       THEN /\ response' = HTTPException(404)
            /\ main' = "responded"
       ELSE /\ main' = "collect"
            /\ UNCHANGED response
    /\ steps' = steps \o (IF main' = "collect" THEN <<"parse">>
                          ELSE <<"parse", "raise">>)
    /\ UNCHANGED <<pipeline, url, upstream, now, cache, cached, last_write,
                   looked_at, max_entries, writers, document, images>>

\* The document is generated, saved in the cache and returned; when
\* rss_str raises, the response is the error 500 and nothing is saved.
\* Faulty variant: the cache file is emptied when the generation fails.
OnGenerationError_Emptied(files, u, t) ==
    save_cached_feed(files, u, Doc(<<>>), t)

\* `raise HTTPException(500, ...)` leaves the handler before the call of
\* save_cached_feed: the files are as they were.
OnGenerationError(files, u, t) == files

Generate ==
    /\ main = "sorted"
    /\ IF Serializable(processed)
       THEN LET rss == Doc(processed)
            IN /\ cache' = save_cached_feed(cache, url, rss, now)
               /\ last_write' = [last_write EXCEPT
                                   ![url] = WriteOf(now, rss,
                                                    method_extraction,
                                                    max_entries)]
               /\ response' = Response(rss)
               /\ steps' = steps \o <<"serialize", "store", "return">>
       ELSE /\ response' = HTTPException(500)
            /\ cache' = OnGenerationError(cache, url, now)
            /\ steps' = steps \o <<"serialize", "raise">>
            /\ UNCHANGED last_write
    /\ main' = "responded"
    /\ UNCHANGED <<pipeline, url, upstream, now, cached, looked_at,
                   max_entries, writers, document, images>>

\* ------------------------------------------------------------ the request
Configs == [USE_JINA : BOOLEAN, USE_CLOUDSCRAPER : BOOLEAN,
            USE_PLAYWRIGHT : BOOLEAN]
\* The defaults of src/config.py: every method enabled.
DefaultConfig ==
    [USE_JINA |-> TRUE, USE_CLOUDSCRAPER |-> TRUE, USE_PLAYWRIGHT |-> TRUE]
PreferredNames == {None, "jina", "Jina", "cloudscraper", "playwright", "bogus"}

SeqsUpTo(S, n) == UNION {[1..k -> S] : k \in 1..n}

SummaryLong == Rep("a", 51)

\* Entries of the cascade runs: one without a link, one with.
CascadeEntries ==
    [link : {"", "u1"}, published_parsed : {NoDate},
     summary : {SummaryLong}, tags : {<<>>}]

InitRun ==
    /\ pc = [i \in Tasks |-> "queued"]
    /\ methods = [i \in Tasks |-> <<>>]
    /\ tried = [i \in Tasks |-> <<>>]
    /\ raw_html = [i \in Tasks |-> NoHtml]
    /\ result = [i \in Tasks |-> NoRecord]
    /\ playwright_lock = FALSE
    /\ processed = <<>>
    /\ failed = 0
    /\ stats = [cascade |-> 0, rss_summary |-> 0, unavailable |-> 0]
    /\ collected = {}
    /\ order = <<>>
    /\ main = "start"
    /\ cached = NoDoc
    /\ response = NoResponse
    /\ looked_at = -1
    /\ steps = <<>>
    /\ waiting = <<>>
    /\ writers = Idle

NeverWritten == [u \in Urls |-> NoWrite]

\* extract_images was not called.
NoCall == [html |-> [empty |-> TRUE], base_url |-> EmptyUrl]
Pending == [host |-> "pending", path |-> "pending"]
NotReturned ==
    [article_image |-> Pending, site_logo |-> Pending, favicon |-> Pending]
NoImagesCall ==
    /\ document = NoCall
    /\ images = NotReturned

\* An empty cache and a source feed that answers.
InitFresh ==
    /\ url = "f1"
    /\ upstream = OkUpstream
    /\ now = 0
    /\ cache = NoFiles
    /\ last_write = NeverWritten
    /\ max_entries = <<>>
    /\ NoImagesCall

\* One request under any configuration and any preferred method.
Init ==
    /\ Config \in Configs
    /\ method_extraction \in PreferredNames
    /\ workers \in 1..MaxWorkers
    /\ entries \in SeqsUpTo(CascadeEntries, MaxEntries)
    /\ web = {"article", "control", "short"}
    /\ InitRun
    /\ InitFresh

\* ------------------------------------------------ one entry, any content
Summaries ==
    {<<>>, Rep("a", 50), SummaryLong, Rep("a", 49) \o <<" ", " ">>,
     Rep(SOH, 51), <<"<">> \o Rep(SOH, 50)}

ElevenTags ==
    [k \in 1..11 |-> <<"t", "a", "g", SubSeq(Alphabet, 16, 26)[k]>>]

CategoryLists ==
    {<<>>, <<<<"a", "b", "c">>>>, <<<<"a", "b">>, <<"a", "b">>>>,
     <<<<"b", "b", "b">>, <<"a", "a", "a">>, <<"b", "b", "b">>>>,
     <<<<"a", "b", "!">>>>, <<Rep("a", 51)>>, ElevenTags}

RichEntries ==
    [link : {"", "u1"}, published_parsed : {NoDate, <<1>>},
     summary : Summaries, tags : CategoryLists]

\* One entry with any summary and categories, any page of the web, under
\* any configuration.
InitEntry ==
    /\ Config \in Configs
    /\ method_extraction = None
    /\ workers = 1
    /\ entries \in [1..1 -> RichEntries]
    /\ web = PageIds
    /\ InitRun
    /\ InitFresh

\* ------------------------------------------- a feed under the defaults
\* Entries of the dispatched feed.
MaxFeed == 2

PipelineEntries ==
    [link : {"", "u1", "u2"}, published_parsed : {NoDate} \cup Dates,
     summary : {SummaryLong}, tags : {<<>>}]

InitPipeline ==
    /\ Config = DefaultConfig
    /\ method_extraction = None
    /\ workers \in 1..MaxWorkers
    /\ entries \in SeqsUpTo(PipelineEntries, MaxFeed)
    /\ web = {"article"}
    /\ InitRun
    /\ InitFresh

\* ------------------------------------------------ a batch of entries
\* Entries of a batch: without a link, with one, with one that cannot be
\* encoded.
BatchEntries ==
    [link : {"", "u1", LINK_SURROGATE}, published_parsed : {NoDate},
     summary : {SummaryLong}, tags : {<<>>}]

InitBatch ==
    /\ Config = DefaultConfig
    /\ method_extraction = None
    /\ workers \in 1..MaxWorkers
    /\ entries \in SeqsUpTo(BatchEntries, MaxFeed)
    /\ web = {"article"}
    /\ InitRun
    /\ InitFresh

\* ------------------------------------------ threads at the browser's lock
\* Entries of the feed and threads of the pool.
GateThreads == 3

\* As many threads as entries, every entry with a link: all of them reach
\* fetch_with_playwright, the first method of the cascade.
InitGate ==
    /\ Config = DefaultConfig
    /\ method_extraction = None
    /\ workers = GateThreads
    /\ entries = [k \in 1..GateThreads |->
                     [link |-> "u1", published_parsed |-> NoDate,
                      summary |-> SummaryLong, tags |-> <<>>]]
    /\ web = {"article"}
    /\ InitRun
    /\ InitFresh

\* Feeds whose entries all have a link, for any number of threads: every
\* entry reaches fetch_with_playwright.
InitWait ==
    /\ Config = DefaultConfig
    /\ method_extraction = None
    /\ workers \in 1..MaxWorkers
    /\ entries \in SeqsUpTo({[link |-> "u1", published_parsed |-> NoDate,
                               summary |-> SummaryLong, tags |-> <<>>]},
                             MaxFeed)
    /\ web = {"article"}
    /\ InitRun
    /\ InitFresh

\* --------------------------------------------- a request, from its start
\* workers: int = Query(Config.MAX_WORKERS, ge=1, le=20)
WORKERS_GE == 1
WORKERS_LE == 20
\* Values of the environment variable MAX_WORKERS: its default and one more.
MaxWorkersEnv == {WORKERS_LE, WORKERS_LE + 1}
\* The query parameter, absent (<<>>) or given; a value outside ge..le is
\* refused by the framework and the handler does not run.
WorkersParams ==
    {<<>>} \cup {<<w>> : w \in {v \in {0} \cup (1..MaxWorkers)
                                        \cup {WORKERS_LE + 1} :
                                     v >= WORKERS_GE /\ v <= WORKERS_LE}}
\* The handler's argument: the parameter, or the default, which the
\* framework does not check against ge and le.
WorkersArg(param, max_workers) ==
    IF param = <<>> THEN max_workers ELSE param[1]

\* Entries of a request: with or without a link, with or without a
\* category that holds a control character.
RequestEntries ==
    [link : {"", "u1"}, published_parsed : {NoDate},
     summary : {SummaryLong}, tags : {<<>>, <<<<"a", "b", "c", SOH>>>>}]

\* The document of an earlier request, without entries.
OldDoc == Doc(<<>>)

\* A request on a cache that is empty or holds a document written at hour
\* 0, for a source feed in any condition.
InitRequest ==
    /\ Config = DefaultConfig
    /\ method_extraction = None
    /\ workers \in {WorkersArg(p, mw) : p \in WorkersParams,
                                        mw \in MaxWorkersEnv}
    /\ upstream \in Upstreams
    /\ entries \in IF upstream.kind = "ok"
                   THEN {<<>>} \cup SeqsUpTo(RequestEntries, MaxFeed)
                   ELSE {<<>>}
    /\ web = {"article"}
    /\ url = "f1"
    /\ \/ /\ cache = NoFiles
          /\ last_write = NeverWritten
          /\ now = 0
       \/ /\ cache = save_cached_feed(NoFiles, "f1", OldDoc, 0)
          /\ last_write = [NeverWritten EXCEPT
                             !["f1"] = WriteOf(0, OldDoc, None, <<>>)]
          /\ now \in 0..MaxClock
    /\ max_entries = <<>>
    /\ NoImagesCall
    /\ InitRun

\* A request for a source feed in any condition, of one entry at most, on
\* a cache that is empty or holds a document written at hour 0.
InitFailure ==
    /\ Config = DefaultConfig
    /\ method_extraction = None
    /\ workers = 1
    /\ upstream \in Upstreams
    /\ entries \in IF upstream.kind = "ok"
                   THEN {<<>>} \cup [1..1 -> RequestEntries]
                   ELSE {<<>>}
    /\ web = {"article"}
    /\ url = "f1"
    /\ \/ /\ cache = NoFiles
          /\ last_write = NeverWritten
          /\ now = 0
       \/ /\ cache = save_cached_feed(NoFiles, "f1", OldDoc, 0)
          /\ last_write = [NeverWritten EXCEPT
                             !["f1"] = WriteOf(0, OldDoc, None, <<>>)]
          /\ now \in 0..MaxClock
    /\ max_entries = <<>>
    /\ NoImagesCall
    /\ InitRun

\* ------------------------------------------------- the cache over time
\* A document with one entry.
NewDoc ==
    Doc(<<FallbackRecord([link |-> "u1", published_parsed |-> NoDate,
                          summary |-> SummaryLong, tags |-> <<>>])>>)
SavedDocs == {OldDoc, NewDoc}

\* An hour passes.  datetime.now() and the mtime are both read on the
\* host's local clock, taken here without a change of its UTC offset.
Tick ==
    /\ now < MaxClock
    /\ now' = now + 1
    /\ UNCHANGED <<pipeline, main, url, upstream, cache, cached, response,
                   last_write, looked_at, max_entries, steps, writers, document, images>>

\* A call of save_cached_feed(u, content).
SaveCachedFeed(u, content) ==
    /\ cache' = save_cached_feed(cache, u, content, now)
    /\ last_write' = [last_write EXCEPT
                        ![u] = WriteOf(now, content, None, <<>>)]
    /\ UNCHANGED <<pipeline, main, url, upstream, now, cached, response,
                   looked_at, max_entries, steps, writers, document, images>>

\* A call of get_cached_feed(u).
GetCachedFeed(u) ==
    /\ url' = u
    /\ cached' = get_cached_feed(cache, u, now)
    /\ cache' = AfterRead(cache, u, now)
    /\ last_write' = [last_write EXCEPT ![u] = Looked(@, cached')]
    /\ looked_at' = now
    /\ UNCHANGED <<pipeline, main, upstream, now, response, max_entries,
                   steps, writers, document, images>>

Save == \E u \in Urls : \E content \in SavedDocs : SaveCachedFeed(u, content)
Get == \E u \in Urls : GetCachedFeed(u)

InitCache ==
    /\ Config = DefaultConfig
    /\ method_extraction = None
    /\ workers = 1
    /\ entries = <<>>
    /\ web = {"article"}
    /\ InitRun
    /\ InitFresh

NextCache ==
    \/ Tick
    \/ Save
    \/ Get

\* ------------------------------------------- requests, one after another
\* The source feed: two entries, each with a link.
ServerFeed ==
    [k \in {1, 2} |->
        [link |-> IF k = 1 THEN "u1" ELSE "u2", published_parsed |-> NoDate,
         summary |-> SummaryLong, tags |-> <<>>]]

\* max_entries: Optional[int] = Query(None, ge=1, ...), absent or 1.
MaxEntriesParams == {<<>>, <<1>>}
\* method_extraction, absent or a method.
ServerMethods == {None, "jina"}
\* The URL the requests are made for.
ServerUrls == {"f1"}

\* feed.entries[:max_entries] if max_entries else feed.entries
Cut(feed, max) ==
    IF max = <<>> THEN feed
    ELSE SubSeq(feed, 1, IF max[1] < Len(feed) THEN max[1] ELSE Len(feed))

\* The handler is called for a request: its parameters, and nothing done
\* yet.
Called(u, method, max) ==
    /\ url = u
    /\ method_extraction = method
    /\ max_entries = max
    /\ entries = Cut(ServerFeed, max)
    /\ InitRun

InitServer ==
    /\ Config = DefaultConfig
    /\ workers = 1
    /\ web = {"article"}
    /\ upstream = OkUpstream
    /\ now = 0
    /\ cache = NoFiles
    /\ last_write = NeverWritten
    /\ NoImagesCall
    /\ \E u \in ServerUrls, method \in ServerMethods,
          max \in MaxEntriesParams : Called(u, method, max)

\* The next request arrives once the last one was answered.
Receive ==
    /\ main = "responded"
    /\ \E u \in ServerUrls, method \in ServerMethods,
          max \in MaxEntriesParams :
          LET feed == Cut(ServerFeed, max)
              M == Len(feed)
          IN /\ url' = u
             /\ method_extraction' = method
             /\ max_entries' = max
             /\ entries' = feed
             /\ pc' = [i \in 1..M |-> "queued"]
             /\ methods' = [i \in 1..M |-> <<>>]
             /\ tried' = [i \in 1..M |-> <<>>]
             /\ raw_html' = [i \in 1..M |-> NoHtml]
             /\ result' = [i \in 1..M |-> NoRecord]
    /\ processed' = <<>>
    /\ failed' = 0
    /\ stats' = [cascade |-> 0, rss_summary |-> 0, unavailable |-> 0]
    /\ collected' = {}
    /\ order' = <<>>
    /\ main' = "start"
    /\ cached' = NoDoc
    /\ response' = NoResponse
    /\ steps' = <<>>
    /\ looked_at' = -1
    /\ UNCHANGED <<Config, workers, web, playwright_lock, waiting, upstream,
                   now, cache, last_write, writers, document, images>>

\* ------------------------------------- concurrent saves of one cache file
\* The bytes of a document, in pieces: its envelope, then one piece per
\* entry.  A document with more entries is longer.
Bytes(doc) ==
    [k \in 1..(1 + Len(doc[1])) |-> [of |-> doc, piece |-> k]]

\* A write of `data` at offset 0 of a file that holds `old`: the bytes of
\* the file beyond the data stay.
Overlay(data, old) ==
    IF Len(old) > Len(data)
    THEN data \o SubSeq(old, Len(data) + 1, Len(old)) ELSE data

\* write_bytes, first half: open(mode="wb") creates the file or empties it.
OpenFile(w, u, content) ==
    /\ writers[w].at = "idle"
    /\ writers' = [writers EXCEPT ![w] = [at |-> "opened",
                                          content |-> content]]
    /\ cache' = [cache EXCEPT ![u] = [exists |-> TRUE, content |-> <<>>,
                                      mtime |-> now]]
    /\ url' = u
    /\ UNCHANGED <<pipeline, main, upstream, now, cached, response,
                   last_write, looked_at, max_entries, steps, document,
                   images>>

\* write_bytes, second half: the data is written from the start of the
\* file, which is then closed.
WriteFile(w) ==
    /\ writers[w].at = "opened"
    /\ writers' = [writers EXCEPT ![w].at = "closed"]
    /\ cache' = [cache EXCEPT
                    ![url] = [exists |-> TRUE,
                              content |-> Overlay(Bytes(writers[w].content),
                                                  cache[url].content),
                              mtime |-> now]]
    /\ last_write' = [last_write EXCEPT
                        ![url] = WriteOf(now, writers[w].content, None, <<>>)]
    /\ UNCHANGED <<pipeline, main, url, upstream, now, cached, response,
                   looked_at, max_entries, steps, document, images>>

Open == \E w \in Writers : \E content \in SavedDocs :
            OpenFile(w, "f1", content)
Write == \E w \in Writers : WriteFile(w)
\* get_cached_feed("f1") by a third thread.
Read == GetCachedFeed("f1")

NextRace ==
    \/ Open
    \/ Write
    \/ Read

\* ------------------------------------------------ calls of extract_images
\* URLs of a document: none, empty, paths on the page's host, an absolute
\* URL.
DocUrls ==
    {NoUrl, EmptyUrl, [host |-> "", path |-> "/logo.png"],
     [host |-> "", path |-> "/favicon.ico"],
     [host |-> "https://cdn", path |-> "/apple-icon.png"]}
LinkTags == [rel : IconRels, href : DocUrls]
\* <link> elements of a document.
MaxLinks == 2

Documents ==
    {[empty |-> TRUE]}
    \cup [empty : {FALSE},
          og_image : {NoUrl}, twitter_image : {NoUrl},
          article_img : {NoUrl, [host |-> "", path |-> "/logo.png"],
                         [host |-> "", path |-> "/photo.jpg"]},
          og_logo : DocUrls, header_logo : DocUrls,
          links : {<<>>} \cup SeqsUpTo(LinkTags, MaxLinks)]
BaseUrls == {[host |-> "https://site", path |-> "/post"]}

\* images = extract_images(raw_html, link)
ExtractImages ==
    /\ images = NotReturned
    /\ images' = extract_images(document.html, document.base_url)
    /\ UNCHANGED <<pipeline, main, url, upstream, now, cache, cached,
                   response, last_write, looked_at, max_entries, steps,
                   writers, document>>

InitImages ==
    /\ Config = DefaultConfig
    /\ method_extraction = None
    /\ workers = 1
    /\ entries = <<>>
    /\ web = {"article"}
    /\ InitRun
    /\ url = "f1"
    /\ upstream = OkUpstream
    /\ now = 0
    /\ cache = NoFiles
    /\ last_write = NeverWritten
    /\ max_entries = <<>>
    /\ document \in [html : Documents, base_url : BaseUrls]
    /\ images = NotReturned

NextImages == ExtractImages

Start == UNCHANGED request /\ \E i \in Tasks : StartEntry(i)
Fetch == UNCHANGED request /\ \E i \in Tasks : CallFetcher(i)
PwCall == UNCHANGED request /\ \E i \in Tasks : PlaywrightCall(i)
PwAcquire == UNCHANGED request /\ \E i \in Tasks : PlaywrightAcquire(i)
PwRender == UNCHANGED request /\ \E i \in Tasks : PlaywrightRender(i)
ExtractStep == UNCHANGED request /\ \E i \in Tasks : Extract(i)
FallbackStep == UNCHANGED request /\ \E i \in Tasks : Fallback(i)
CollectStep == UNCHANGED request /\ \E i \in Tasks : Collect(i)

Next ==
    \/ CacheCheck
    \/ FetchFeed
    \/ Start
    \/ Fetch
    \/ PwCall
    \/ PwAcquire
    \/ PwRender
    \/ ExtractStep
    \/ FallbackStep
    \/ CollectStep
    \/ SortProcessed
    \/ Generate

\* Hours pass between two requests; one request lasts less than an hour.
Elapse == main = "responded" /\ Tick

NextServer ==
    \/ Next
    \/ Elapse
    \/ Receive

Spec == Init /\ [][Next]_vars
SpecEntry == InitEntry /\ [][Next]_vars
SpecPipeline == InitPipeline /\ [][Next]_vars
SpecBatch == InitBatch /\ [][Next]_vars
SpecRequest == InitRequest /\ [][Next]_vars
SpecCache == InitCache /\ [][NextCache]_vars
SpecServer == InitServer /\ [][NextServer]_vars
SpecGate == InitGate /\ [][Next]_vars
\* Every render ends (the browser's calls have timeouts) and the threads
\* are scheduled.
SpecWaitFair == InitWait /\ [][Next]_vars /\ WF_vars(Next)
\* The handlers of concurrent requests run in the threads of the server's
\* pool; each saves the document it has generated.
SpecRace == InitCache /\ [][NextRace]_vars
SpecFailure == InitFailure /\ [][Next]_vars
SpecImages == InitImages /\ [][NextImages]_vars
\* Every call of a strategy ends (each has a timeout) and the threads are
\* scheduled: a step that can be taken is taken.
SpecBatchFair == InitBatch /\ [][Next]_vars /\ WF_vars(Next)

\* ================================================================ claims
HasLink(i) == entries[i].link # ""
Last(l) == l[Len(l)]
\* fetch_content_cascade has ended without HTML for entry i.
CascadeFailed(i) ==
    HasLink(i) /\ pc[i] \in {"fallback", "done"} /\ raw_html[i] = NoHtml
\* The priority order the specification gives the strategies.
Priority(m) ==
    CASE m = "jina" -> 1 [] m = "cloudscraper" -> 2 [] m = "playwright" -> 3

\* C1: without a preferred method, a strategy is attempted only after every
\* enabled strategy of higher priority (jina, then cloudscraper, then
\* playwright) has been attempted and has failed.
C1_PriorityOrder ==
    method_extraction = None =>
        \A i \in Tasks : \A k \in DOMAIN tried[i] :
            \A m \in Range(FETCH_METHODS) :
                (Enabled(m) /\ Priority(m) < Priority(tried[i][k].method))
                => \E j \in 1..(k - 1) : /\ tried[i][j].method = m
                                         /\ tried[i][j].result = "failed"

\* C2: in one call of fetch_content_cascade the methods are attempted in the
\* order of its list; every attempt before the last one has failed; HTML
\* returned is that of the last attempt, which succeeded; and the call ends
\* without HTML only when every method of the list was attempted and failed.
C2_CascadeFallthrough ==
    \A i \in Tasks :
        LET log == tried[i]
            list == CascadeMethods(method_extraction)
        IN /\ Len(log) <= Len(list)
           /\ \A k \in DOMAIN log : log[k].method = list[k]
           /\ \A k \in 1..(Len(log) - 1) : log[k].result = "failed"
           /\ raw_html[i] # NoHtml =>
                 /\ log # <<>>
                 /\ Last(log) = [method |-> raw_html[i].via, result |-> "ok"]
           /\ CascadeFailed(i) =>
                 /\ Len(log) = Len(list)
                 /\ \A k \in DOMAIN log : log[k].result = "failed"

\* C2 witness: a call whose first method failed and whose second returned
\* the HTML.
C2_Witness ==
    \E i \in Tasks :
        /\ Len(tried[i]) = 2
        /\ tried[i][1].result = "failed"
        /\ tried[i][2].result = "ok"
        /\ raw_html[i] # NoHtml

\* C3: at most one thread is inside the rendering section of
\* fetch_with_playwright.
C3_RenderExclusive == Cardinality({i \in Tasks : pc[i] = "render"}) <= 1

\* C3 witness: one thread renders while another waits for the lock.
C3_Witness ==
    \E i, j \in Tasks : pc[i] = "render" /\ pc[j] = "lockwait"

\* C4: with a preferred method that is disabled in the configuration, no
\* fetch function is invoked and every record has method rss_summary or
\* unavailable.
C4_DisabledPreferredNotInvoked ==
    LET key == Lower(method_extraction)
    IN (/\ method_extraction # None
        /\ key \in Range(FETCH_METHODS)
        /\ ~Enabled(key))
       => \A i \in Tasks :
             /\ tried[i] = <<>>
             /\ result[i] # NoRecord =>
                   result[i].method \in {"rss_summary", "unavailable"}

\* C5: with a preferred method, no other method's fetch function is invoked,
\* whether the preferred one succeeds or fails.
C5_OnlyPreferred ==
    method_extraction # None =>
        \A i \in Tasks :
            /\ Len(tried[i]) <= 1
            /\ \A k \in DOMAIN tried[i] :
                  tried[i][k].method = Lower(method_extraction)

\* C5 witness: the preferred method failed for an entry whose processing has
\* ended, while another method was enabled.
C5_Witness ==
    /\ method_extraction # None
    /\ \E i \in Tasks :
          /\ pc[i] = "done"
          /\ tried[i] # <<>>
          /\ tried[i][1].result = "failed"
          /\ \E m \in Range(FETCH_METHODS) :
                m # tried[i][1].method /\ Enabled(m)

AllDisabled ==
    /\ ~Config.USE_JINA
    /\ ~(Config.USE_CLOUDSCRAPER /\ CLOUDSCRAPER_AVAILABLE)
    /\ ~(Config.USE_PLAYWRIGHT /\ PLAYWRIGHT_AVAILABLE)

\* C6: with every method disabled and no preferred method, no fetch function
\* is ever invoked, no call returns HTML, the lock is never taken, and every
\* call ends the same way, in the fallback.
C6_AllDisabledNoCall ==
    (method_extraction = None /\ AllDisabled) =>
        /\ ~playwright_lock
        /\ \A i \in Tasks :
              /\ tried[i] = <<>>
              /\ methods[i] = <<>>
              /\ raw_html[i] = NoHtml
              /\ pc[i] \in {"queued", "fallback", "done"}
              /\ result[i] # NoRecord =>
                    result[i].method \in {"rss_summary", "unavailable"}

\* C6 witness: two calls in a row have ended under that configuration.
C6_Witness ==
    /\ method_extraction = None
    /\ AllDisabled
    /\ \E i, j \in Tasks :
          i # j /\ result[i] # NoRecord /\ result[j] # NoRecord

\* A tag list within the limits the specification gives: at most
\* MAX_TAGS_PER_ARTICLE tags, no duplicate, every length in 3..50.
TagsWithinLimits(tags) ==
    /\ Len(tags) <= MAX_TAGS_PER_ARTICLE
    /\ \A a, b \in DOMAIN tags : a # b => tags[a] # tags[b]
    /\ \A a \in DOMAIN tags : Len(tags[a]) >= 3 /\ Len(tags[a]) <= 50

\* C7: the record of an entry with a link has, on every path, a content
\* that is not empty and holds no control character.
C7_ContentClean ==
    \A i \in Tasks :
        (HasLink(i) /\ result[i] # NoRecord) =>
            /\ result[i].content # <<>>
            /\ \A k \in DOMAIN result[i].content :
                  result[i].content[k] \notin ControlChars

\* C8: the tag list of every record, whatever its method, has at most
\* MAX_TAGS_PER_ARTICLE tags, no duplicate and no tag of a length outside
\* 3..50.
C8_RecordTagsWithinLimits ==
    \A i \in Tasks :
        result[i] # NoRecord => TagsWithinLimits(result[i].tags)

\* C9: every list extract_tags returns (the tags of a record of method
\* cascade) is deduplicated, sorted ascending, of at most
\* MAX_TAGS_PER_ARTICLE tags, each of a length in 3..50.
C9_ExtractTagsNormalised ==
    \A i \in Tasks :
        (result[i] # NoRecord /\ result[i].method = "cascade") =>
            /\ TagsWithinLimits(result[i].tags)
            /\ \A a, b \in DOMAIN result[i].tags :
                  a < b => StrLess(result[i].tags[a], result[i].tags[b])

\* C10: once the list is sorted, the dated entries are in descending order
\* of date and every entry without a date is after every dated entry,
\* whatever the order of collection.
C10_SortedNullLast ==
    main = "sorted" =>
        \A a, b \in DOMAIN processed :
            a < b =>
                /\ (processed[a].pub_date # NoDate
                    /\ processed[b].pub_date # NoDate)
                   => processed[a].pub_date[1] >= processed[b].pub_date[1]
                /\ ~(processed[a].pub_date = NoDate
                     /\ processed[b].pub_date # NoDate)

\* C11: once the list is sorted, the entries without a date are in the
\* order of the feed, whatever the order in which the workers completed.
C11_NullDatesInFeedOrder ==
    main = "sorted" =>
        \A a, b \in DOMAIN processed :
            (/\ a < b
             /\ processed[a].pub_date = NoDate
             /\ processed[b].pub_date = NoDate)
            => \E i, j \in Tasks : /\ i <= j
                                    /\ result[i] = processed[a]
                                    /\ result[j] = processed[b]

\* C20: no two entries of the output of one run have the same id.
C20_UniqueIds ==
    \A a, b \in DOMAIN processed :
        a # b => processed[a].id # processed[b].id

\* C17: an entry without a link is rejected before any fetch: no fetch
\* function is invoked for it and it gets no record; once collected it is
\* not in the output, it is counted under no method, it is counted among
\* the failed entries, and the request still returns its document.
C17_NoLinkRejected ==
    /\ \A i \in Tasks :
          ~HasLink(i) =>
              /\ tried[i] = <<>>
              /\ methods[i] = <<>>
              /\ raw_html[i] = NoHtml
              /\ result[i] = NoRecord
              /\ pc[i] \in {"queued", "done"}
    /\ \A a \in DOMAIN processed : processed[a].link # ""
    /\ stats.cascade + stats.rss_summary + stats.unavailable
          = Cardinality({i \in collected : HasLink(i)})
    /\ failed >= Cardinality({i \in collected : ~HasLink(i)})
    /\ main = "responded" =>
          /\ response = Response(Doc(processed))
          /\ failed >= Cardinality({i \in Tasks : ~HasLink(i)})

\* C17 witness: a request has ended in which an entry without a link was
\* counted as failed and another entry is in the document returned.
C17_Witness ==
    /\ main = "responded"
    /\ response.status = 200
    /\ failed = 1
    /\ Len(processed) = 1
    /\ \E i \in Tasks : ~HasLink(i)

C13_BatchNotAborted ==
    main \in {"sorted", "responded"} =>
        /\ \A i \in Tasks :
              /\ pc[i] = "done"
              /\ i \in collected
              /\ result[i] # NoRecord =>
                    \E a \in DOMAIN processed : processed[a] = result[i]
        /\ Len(processed) = Cardinality({i \in Tasks : result[i] # NoRecord})
        /\ failed = Cardinality({i \in Tasks : result[i] = NoRecord})

\* C13 witness: the first entry of the feed ended in a critical error after
\* its fetch, and the record of the second one is in the output.
C13_Witness ==
    /\ main = "sorted"
    /\ N = 2
    /\ entries[1].link = LINK_SURROGATE
    /\ tried[1] # <<>>
    /\ result[1] = NoRecord
    /\ result[2] # NoRecord
    /\ processed = <<result[2]>>

\* Every entry was collected exactly once and the counts add up.
Accounted ==
    /\ collected = Tasks
    /\ Len(order) = N
    /\ \A a, b \in DOMAIN order : a # b => order[a] # order[b]
    /\ stats.cascade + stats.rss_summary + stats.unavailable = Len(processed)
    /\ Len(processed) + failed = N

\* C18: the run ends, every entry collected exactly once: the counts per
\* method add up to the number of entries of the output, and that number
\* plus the failed count is the number of entries submitted.
C18_TerminatesAccounted == <>(main = "sorted" /\ Accounted)

\* C18 witness: a run of two entries has ended, one in the output and one
\* counted as failed.
C18_Witness ==
    /\ main = "sorted"
    /\ N = 2
    /\ failed = 1
    /\ stats.cascade = 1
    /\ Accounted

\* C14: when the source feed is unreachable, answers other than 2xx, is
\* malformed or has no entry, the request ends in a failure: no entry is
\* dispatched and no document is returned.
C14_UpstreamFailureFatal ==
    (upstream.kind # "ok" \/ upstream.bozo \/ entries = <<>>) =>
        /\ \A i \in Tasks : pc[i] = "queued"
        /\ main = "responded" =>
              (response.status # 200 /\ response.body = NoDoc)

\* C15: once the source feed was fetched and parsed with at least one
\* entry, the request returns a document, whatever became of the entries.
C15_DocumentOnceParsed ==
    (upstream.kind = "ok" /\ entries # <<>> /\ main = "responded") =>
        (response.status = 200 /\ response.body # NoDoc)

\* C19: during a run, the entries in process_entry are at most `workers`,
\* and `workers` is within 1..20.
C19_WorkersBounded ==
    main = "collect" =>
        /\ Cardinality(Running) <= workers
        /\ workers >= 1
        /\ workers <= 20

C21_StrippedSummaryNeeded ==
    \A i \in Tasks :
        (result[i] # NoRecord /\ raw_html[i] = NoHtml) =>
            LET stripped == Strip(entries[i].summary)
            IN /\ result[i].method = "rss_summary" =>
                     (entries[i].summary # <<>> /\ Len(stripped) > 50)
               /\ Len(stripped) <= 50 => result[i].method = "unavailable"

\* C22: a request that misses the cache runs the whole pipeline and, when
\* it succeeds, stores the document it returns; a request for a URL whose
\* document was stored no longer than the TTL ago is a hit: it returns the
\* stored bytes and processes no entry.
C22_MissStoresHitReturns ==
    /\ [](main = "responded" =>
            IF cached = NoDoc
            THEN /\ steps = <<"cache", "parse", "pipeline", "serialize",
                              "store", "return">>
                 /\ \A i \in Tasks : pc[i] = "done"
                 /\ response = Response(Doc(processed))
                 /\ cache[url].exists
                 /\ cache[url].content = response.body
                 /\ last_write[url].content = response.body
            ELSE /\ steps = <<"cache", "return">>
                 /\ \A i \in Tasks : pc[i] = "queued"
                 /\ processed = <<>>
                 /\ response = Response(last_write[url].content))
    /\ [][CacheCheck =>
            LET w == last_write[url]
            IN (w.written /\ now - w.at <= CACHE_TTL) =>
                   /\ cached' = w.content
                   /\ response' = Response(w.content)
                   /\ main' = "responded"]_vars

\* C22 witness: a request was answered from the cache, the TTL after an
\* earlier request had stored its document of at least one entry.
C22_Witness ==
    /\ main = "responded"
    /\ cached # NoDoc
    /\ last_write[url].written
    /\ now - last_write[url].at = CACHE_TTL
    /\ response = Response(last_write[url].content)
    /\ Len(response.body[1]) > 0

\* Step a of the request comes before its step b whenever b was made.
Before(a, b) ==
    \A k \in DOMAIN steps :
        steps[k] = b => \E j \in 1..(k - 1) : steps[j] = a

\* C23: in every request the source feed is fetched and parsed before the
\* cache is looked up; then, on a miss, come the pipeline, the
\* serialization, the store in the cache and the return.
C23_ParseBeforeCache ==
    /\ Before("parse", "cache")
    /\ Before("cache", "pipeline")
    /\ Before("pipeline", "serialize")
    /\ Before("serialize", "store")
    /\ Before("cache", "return")

\* C24: the lock is held only while a thread renders, so it is released
\* when the render ends, by a return or by an exception; a thread that
\* waits for the lock leaves the wait only by taking it, and in the end no
\* thread waits any more: every entry was processed to its end and the
\* request has completed.
C24_GateNoDeadlock ==
    /\ [](playwright_lock <=> \E i \in Tasks : pc[i] = "render")
    /\ [][\A i \in Tasks :
             (pc[i] = "lockwait" /\ pc'[i] # "lockwait") =>
                 (pc'[i] = "render" /\ ~playwright_lock)]_vars
    /\ <>(main = "responded" /\ \A i \in Tasks : pc[i] = "done")

\* C24 witness: a render has ended by an exception and the lock is free
\* again, while a thread that had to wait for it has not taken it yet.
C24_Witness ==
    /\ ~playwright_lock
    /\ \E i, j \in Tasks :
          /\ waiting = <<i>>
          /\ pc[i] = "lockwait"
          /\ tried[j] # <<>>
          /\ tried[j][1] = [method |-> "playwright", result |-> "failed"]

\* C25: the threads that wait for the lock take it in the order in which
\* they began to wait: the one that takes it is the first of those waiting.
C25_GateFifo ==
    [][\A i \in Tasks :
          (PlaywrightAcquire(i) /\ \E k \in DOMAIN waiting : waiting[k] = i)
              => i = waiting[1]]_vars

\* extract_images has returned for a document that is not empty.
ImagesExtracted == images # NotReturned /\ ~document.html.empty
\* The document has an og:logo meta with a content, or a header image with
\* a "logo" alt text and a src that is not empty.
LogoFound ==
    Truthy(document.html.og_logo) \/ Truthy(document.html.header_logo)

\* C26 (as stated): after extract_images of a document that is not empty,
\* favicon and site_logo are set, and site_logo equals favicon exactly
\* when neither an og:logo meta nor a header logo image was found.
C26_LogoIsFaviconIffNoLogo ==
    ImagesExtracted =>
        /\ Truthy(images.favicon)
        /\ Truthy(images.site_logo)
        /\ images.site_logo = images.favicon <=> ~LogoFound

\* C26 (amended): after extract_images of a document that is not empty,
\* favicon is the href of the first apple-touch-icon link, else that of
\* the first link whose rel holds "icon", else /favicon.ico of the page's
\* host; site_logo is the og:logo, else the header's logo image, and the
\* favicon when neither was found.
C26_LogoFallsBackToFavicon ==
    ImagesExtracted =>
        LET doc == document.html
            base == document.base_url
            apples == {k \in DOMAIN doc.links :
                          doc.links[k].rel = "apple-touch-icon"}
            icons == {k \in DOMAIN doc.links :
                         doc.links[k].rel \in {"apple-touch-icon", "icon"}}
            First(S) == CHOOSE k \in S : \A j \in S : k <= j
            UsableFirst(S) == S # {} /\ Truthy(doc.links[First(S)].href)
        IN /\ Truthy(images.favicon)
           /\ Truthy(images.site_logo)
           /\ images.favicon =
                 IF UsableFirst(apples)
                 THEN urljoin(base, doc.links[First(apples)].href)
                 ELSE IF UsableFirst(icons)
                 THEN urljoin(base, doc.links[First(icons)].href)
                 ELSE [host |-> base.host, path |-> "/favicon.ico"]
           /\ images.site_logo =
                 IF Truthy(doc.og_logo) THEN urljoin(base, doc.og_logo)
                 ELSE IF Truthy(doc.header_logo)
                 THEN urljoin(base, doc.header_logo)
                 ELSE images.favicon

\* C26 witness: a document without og:logo and without header logo image,
\* with an icon link: the logo returned is the favicon, the link's href.
C26_Witness ==
    /\ ImagesExtracted
    /\ ~LogoFound
    /\ Len(document.html.links) = 1
    /\ document.html.links[1].rel = "icon"
    /\ Truthy(document.html.links[1].href)
    /\ images.site_logo = images.favicon
    /\ images.favicon = urljoin(document.base_url, document.html.links[1].href)

\* C27: a document returned from the cache was produced by a request with
\* the same method_extraction and the same max_entries, and the response
\* to a request with max_entries = n holds at most n entries.
C27_CachedForSameFingerprint ==
    main = "responded" =>
        /\ cached # NoDoc =>
              /\ last_write[url].method = method_extraction
              /\ last_write[url].max_entries = max_entries
        /\ (response.status = 200 /\ max_entries # <<>>) =>
              Len(response.body[1]) <= max_entries[1]

\* The number of times the request made step s.
Count(s) == Cardinality({k \in DOMAIN steps : steps[k] = s})

\* C28: the cache changes only by the save of a request that has
\* serialized its document and returns it, once per request; a request
\* that ends in a failure has made no save, and the files and the times of
\* their last writes are what they were.
C28_FailureLeavesCache ==
    /\ [][cache' # cache =>
             /\ main = "sorted"
             /\ response'.status = 200
             /\ cache' = save_cached_feed(cache, url, response'.body, now)
             /\ steps' = steps \o <<"serialize", "store", "return">>]_vars
    /\ [](/\ Count("store") <= 1
          /\ (main = "responded" /\ response.status # 200) =>
                /\ Count("store") = 0
                /\ cache \in {NoFiles,
                              save_cached_feed(NoFiles, "f1", OldDoc, 0)}
                /\ \A u \in Urls :
                      /\ cache[u].exists = last_write[u].written
                      /\ cache[u].mtime = last_write[u].at)

\* C28 witness: the generation of the document failed on a miss, and the
\* expired file of the cache is still there with its time.
C28_Witness ==
    /\ main = "responded"
    /\ response.status = 500
    /\ cache[url] = [exists |-> TRUE, content |-> OldDoc, mtime |-> 0]

\* C29: a call of get_cached_feed leaves the files as they are, contents
\* and times, whether it is a hit or not; so, whatever the hits served
\* since, a lookup made more than the TTL after the last save returns None.
C29_HitKeepsAge ==
    /\ [][\A u \in Urls : GetCachedFeed(u) => cache' = cache]_vars
    /\ [](\A u \in Urls :
             /\ cache[u].exists = last_write[u].written
             /\ cache[u].mtime = last_write[u].at
             /\ cache[u].content = last_write[u].content)
    /\ []((/\ looked_at = now
           /\ last_write[url].written
           /\ now - last_write[url].at > CACHE_TTL) => cached = NoDoc)

\* C29 witness: a document that had served MaxHits hits or more is no
\* longer returned an hour after the end of its validity.
C29_Witness ==
    /\ looked_at = now
    /\ cached = NoDoc
    /\ last_write[url].written
    /\ last_write[url].hits = MaxHits
    /\ now - last_write[url].at = CACHE_TTL + 1

\* C30: with concurrent saves of the file of one URL, every document read
\* from the cache is the whole of a document that one of the saves wrote,
\* and once every save has ended the file holds the bytes of the last one.
C30_WholeDocuments ==
    /\ cached # NoDoc =>
          \E w \in Writers :
              /\ writers[w].at # "idle"
              /\ cached = Bytes(writers[w].content)
    /\ (\A w \in Writers : writers[w].at = "closed") =>
          cache[url].content = Bytes(last_write[url].content)

====
